---- MODULE Spec2Model ----
(***************************************************************************)
(* Model of the content-generation engine of x402-content-gen:             *)
(*   generateTweet   (src/src/generators/tweet.ts, lines 52-107)           *)
(*   generateThread  (src/src/generators/tweet.ts, lines 227-300)          *)
(*   generateSummary (src/src/generators/summary.ts, lines 35-94)          *)
(*                                                                         *)
(* JavaScript strings are modelled as TLA+ strings, one character per      *)
(* UTF-16 code unit, so Len is String.prototype.length.  A code unit       *)
(* outside ASCII is written as an ASCII stand-in: an emoji that is a       *)
(* surrogate pair is "~" followed by a letter (two units), a BMP symbol    *)
(* is a single "*" or "^" (one unit).                                       *)
(*                                                                         *)
(* Each generator is a function of its validated input and of the draws    *)
(* of Math.random(); a draw is an index chosen with \E in the action.      *)
(*                                                                         *)
(* The second part models the two HTTP servers of src/src/index.ts, which  *)
(* put the generators behind routes, schema validation and, on the x402    *)
(* server, the payment middleware.                                         *)
(***************************************************************************)
EXTENDS Integers, Sequences, FiniteSets, TLC

VARIABLES component, pc, input, output, server, requests, tables

vars == <<component, pc, input, output, server, requests, tables>>

\* the variables of one generator call
callVars == <<component, pc, input, output>>

\* the variables of the HTTP server
serverVars == <<server, requests, tables>>

(***************************************************************************)
(* String primitives of the JavaScript runtime used by the generators.     *)
(***************************************************************************)
Min(a, b) == IF a <= b THEN a ELSE b

Max(a, b) == IF a >= b THEN a ELSE b

CharAt(s, i) == SubSeq(s, i, i)

\* characters matched by \s in the regular expressions of the source
WhiteSpace == {" ", "\n", "\t"}

\* characters matched by [.!?]
Terminators == {".", "!", "?"}

LowerLetters == "abcdefghijklmnopqrstuvwxyz"

UpperLetters == "ABCDEFGHIJKLMNOPQRSTUVWXYZ"

LetterSet == {CharAt(LowerLetters, i) : i \in 1..26} \cup {CharAt(UpperLetters, i) : i \in 1..26}

\* s.slice(from, to) for 0 <= from, with to clamped to the string
Slice(s, from, to) == SubSeq(s, from + 1, Min(Max(to, 0), Len(s)))

\* String.prototype.toLowerCase / toUpperCase on one code unit
LowerMap == [c \in {CharAt(UpperLetters, i) : i \in 1..26} |->
                CharAt(LowerLetters, CHOOSE i \in 1..26 : CharAt(UpperLetters, i) = c)]

UpperMap == [c \in {CharAt(LowerLetters, i) : i \in 1..26} |->
                CharAt(UpperLetters, CHOOSE i \in 1..26 : CharAt(LowerLetters, i) = c)]

LowerChar(c) == IF c \in DOMAIN LowerMap THEN LowerMap[c] ELSE c

UpperChar(c) == IF c \in DOMAIN UpperMap THEN UpperMap[c] ELSE c

RECURSIVE ToLowerCase(_)
ToLowerCase(s) ==
    IF Len(s) = 0 THEN ""
    ELSE IF Len(s) = 1 THEN LowerChar(s)
    ELSE ToLowerCase(SubSeq(s, 1, Len(s) \div 2)) \o ToLowerCase(SubSeq(s, Len(s) \div 2 + 1, Len(s)))

\* s.split(sep) for single separator characters: every separator ends a
\* piece, so adjacent separators enclose an empty piece
RECURSIVE SplitEach(_, _)
SplitEach(s, seps) ==
    IF Len(s) = 0 THEN <<"">>
    ELSE IF Len(s) = 1 THEN (IF s \in seps THEN <<"", "">> ELSE <<s>>)
    ELSE LET half  == Len(s) \div 2
             left  == SplitEach(SubSeq(s, 1, half), seps)
             right == SplitEach(SubSeq(s, half + 1, Len(s)), seps)
         IN SubSeq(left, 1, Len(left) - 1)
              \o <<left[Len(left)] \o right[1]>>
              \o SubSeq(right, 2, Len(right))

\* s.split(/[seps]+/): the pieces between maximal runs of separator
\* characters; the piece before the first run and the piece after the last
\* run are kept even when empty
SplitRuns(s, seps) ==
    LET each == SplitEach(s, seps)
        n    == Len(each)
    IN IF n = 1 THEN each
       ELSE <<each[1]>> \o SelectSeq(SubSeq(each, 2, n - 1), LAMBDA piece : Len(piece) > 0) \o <<each[n]>>

\* String.prototype.trim
RECURSIVE TrimStart(_)
TrimStart(s) ==
    IF Len(s) > 0 /\ CharAt(s, 1) \in WhiteSpace THEN TrimStart(SubSeq(s, 2, Len(s))) ELSE s

RECURSIVE TrimEnd(_)
TrimEnd(s) ==
    IF Len(s) > 0 /\ CharAt(s, Len(s)) \in WhiteSpace THEN TrimEnd(SubSeq(s, 1, Len(s) - 1)) ELSE s

Trim(s) == TrimEnd(TrimStart(s))

\* Array.prototype.join
RECURSIVE Join(_, _)
Join(seq, sep) ==
    IF Len(seq) = 0 THEN ""
    ELSE IF Len(seq) = 1 THEN seq[1]
    ELSE seq[1] \o sep \o Join(Tail(seq), sep)

\* s.split(/\s+/).length: one piece more than there are maximal runs of
\* whitespace, counted by the positions where a run starts
WordCount(s) ==
    Cardinality({i \in 1..Len(s) : /\ CharAt(s, i) \in WhiteSpace
                                   /\ (i = 1 \/ CharAt(s, i - 1) \notin WhiteSpace)}) + 1

\* a text of n characters: the unit repeated and cut to size
RECURSIVE Repeat(_, _)
Repeat(unit, n) ==
    IF n <= 0 THEN ""
    ELSE IF n <= Len(unit) THEN SubSeq(unit, 1, n)
    ELSE unit \o Repeat(unit, n - Len(unit))

(***************************************************************************)
(* Post Composer: generateTweet, src/src/generators/tweet.ts               *)
(***************************************************************************)
TweetTones == {"professional", "casual", "humorous", "inspirational", "informative"}

\* z.number().min(50).max(280) of TweetInputSchema.maxLength
TweetMinLength == 50

TweetMaxLength == 280

\* z.string().min(1).max(500) of TweetInputSchema.topic
TopicMaxChars == 500

\* a variant of the table that has no entry for the tone informative
toneStylesWithoutInformative ==
    [professional |->
        [openings |-> <<"Insight:", "Key takeaway:", "Important update:", "Industry perspective:">>,
         emojis   |-> <<"~a", "~b", "~c", "~d", "*">>],
     casual |->
        [openings |-> <<"Just thinking about", "You know what's cool?", "Hot take:", "Real talk:">>,
         emojis   |-> <<"~e", "~f", "~g", "^", "~h">>],
     humorous |->
        [openings |-> <<"Plot twist:", "Nobody:", "Me:", "The thing about", "Breaking:">>,
         emojis   |-> <<"~i", "~j", "~k", "~l", "~m">>],
     inspirational |->
        [openings |-> <<"Remember:", "The truth is,", "Don't forget:", "Here's the secret:">>,
         emojis   |-> <<"~n", "~o", "~p", "~q", "~r">>]]

\* the style table; emoji are stand-ins of the same number of code units
toneStyles ==
    [professional |->
        [openings |-> <<"Insight:", "Key takeaway:", "Important update:", "Industry perspective:">>,
         emojis   |-> <<"~a", "~b", "~c", "~d", "*">>],
     casual |->
        [openings |-> <<"Just thinking about", "You know what's cool?", "Hot take:", "Real talk:">>,
         emojis   |-> <<"~e", "~f", "~g", "^", "~h">>],
     humorous |->
        [openings |-> <<"Plot twist:", "Nobody:", "Me:", "The thing about", "Breaking:">>,
         emojis   |-> <<"~i", "~j", "~k", "~l", "~m">>],
     inspirational |->
        [openings |-> <<"Remember:", "The truth is,", "Don't forget:", "Here's the secret:">>,
         emojis   |-> <<"~n", "~o", "~p", "~q", "~r">>],
     informative |->
        [openings |-> <<"Did you know?", "Fun fact:", "TIL:", "Here's something interesting:">>,
         emojis   |-> <<"~s", "~t", "~u", "~v", "~w">>]]

\* const threadStyles, the table of the Thread Composer
threadStyles ==
    [educational |->
        [hooks |-> <<"~x Thread: Everything you need to know about", "~t Let me break down",
                     "~A A comprehensive guide to">>,
         transitions |-> <<"First,", "Next,", "Additionally,", "Furthermore,", "Moreover,", "Also important:">>,
         ctas |-> <<"Follow for more insights like this!", "Retweet if you found this helpful ~B",
                    "Bookmark this for later reference ~C">>],
     storytelling |->
        [hooks |-> <<"~x Story time:", "~D Let me tell you about", "^ This is the story of">>,
         transitions |-> <<"It all started when", "Then something changed:", "The turning point came when",
                           "What happened next", "And then">>,
         ctas |-> <<"What story would you like to hear next?", "Drop a ~h if this resonated",
                    "Share your own story below ~E">>],
     listicle |->
        [hooks |-> <<"~h X things about", "~u Top insights on", "~F The ultimate list:">>,
         transitions |-> <<"1/", "2/", "3/", "4/", "5/", "6/", "7/", "8/", "9/", "10/">>,
         ctas |-> <<"Which one surprised you most?", "Save this list for later! ~C",
                    "Add your favorites in the replies ~E">>],
     argumentative |->
        [hooks |-> <<"~c Unpopular opinion:", "~g Here's why", "* Hot take:">>,
         transitions |-> <<"Here's the thing:", "Consider this:", "The evidence shows:",
                           "Critics might say, but:", "The reality is:">>,
         ctas |-> <<"Agree or disagree? Let me know ~E", "Change my mind in the replies",
                    "RT if you see it too">>],
     howto |->
        [hooks |-> <<"~y^ How to", "~w Step-by-step guide:", "~c Master this:">>,
         transitions |-> <<"Step 1:", "Step 2:", "Step 3:", "Step 4:", "Pro tip:", "Bonus:">>,
         ctas |-> <<"Try this and let me know how it goes!", "Tag someone who needs this",
                    "Follow for more tutorials ~G">>]]

\* the module-level tables every request reads
StyleTables == [tone |-> toneStyles, thread |-> threadStyles]

\* no HTTP server is part of a direct call of a generator
ServerOff ==
    /\ server = "off"
    /\ requests = <<>>
    /\ tables = StyleTables

\* a variant that keeps the words of three characters as well
TopicWordsFromThree(topic) ==
    SelectSeq(SplitRuns(ToLowerCase(topic), WhiteSpace), LAMBDA w : Len(w) >= 3)

\* topic.toLowerCase().split(/\s+/).filter(w => w.length > 3)
TopicWords(topic) ==
    SelectSeq(SplitRuns(ToLowerCase(topic), WhiteSpace), LAMBDA w : Len(w) > 3)

\* `#${w.charAt(0).toUpperCase() + w.slice(1)}`
Hashtag(w) == "#" \o UpperChar(CharAt(w, 1)) \o SubSeq(w, 2, Len(w))

\* topicWords.slice(0, cap).map(...)
HashtagsOf(topic, cap) ==
    LET ws == TopicWords(topic)
    IN [i \in 1..Min(cap, Len(ws)) |-> Hashtag(ws[i])]

\* the switch on tone that renders the body
tweetBody(tone, opening, topic) ==
    CASE tone = "professional" ->
           opening \o " " \o topic \o " is reshaping how we think about success in this space. The data speaks for itself."
      [] tone = "casual" ->
           opening \o " " \o topic \o " - honestly, this is the kind of thing I wish more people talked about"
      [] tone = "humorous" ->
           opening \o " " \o topic \o " walks into a bar. The bartender says \"we don't serve your kind here.\" "
                   \o topic \o " says \"that's fine, I brought my own disruption\""
      [] tone = "inspirational" ->
           opening \o " " \o topic \o " isn't just a concept - it's a journey. Every step you take brings you closer to mastery."
      [] tone = "informative" ->
           opening \o " " \o topic \o " has been gaining attention lately. Here's what you need to know and why it matters for your future."

\* a variant that appends the block without looking at the length
appendHashtagsAlways(tweet, hashtags, includeHashtags, maxLength) ==
    IF includeHashtags /\ Len(hashtags) > 0
    THEN tweet \o "\n\n" \o Join(hashtags, " ")
    ELSE tweet

\* the hashtag block is appended only when the whole still fits
appendHashtags(tweet, hashtags, includeHashtags, maxLength) ==
    IF includeHashtags /\ Len(hashtags) > 0
    THEN LET hashtagStr == "\n\n" \o Join(hashtags, " ")
         IN IF Len(tweet) + Len(hashtagStr) <= maxLength THEN tweet \o hashtagStr ELSE tweet
    ELSE tweet

\* a variant that cuts at maxLength and then appends the ellipsis
truncateTweetNoMargin(tweet, maxLength) ==
    IF Len(tweet) > maxLength THEN Slice(tweet, 0, maxLength) \o "..." ELSE tweet

\* "Truncate if needed"
truncateTweet(tweet, maxLength) ==
    IF Len(tweet) > maxLength THEN Slice(tweet, 0, maxLength - 3) \o "..." ELSE tweet

TweetTimes == <<"9:00 AM", "12:00 PM", "3:00 PM", "6:00 PM">>

getSuggestedPostTime(t) == TweetTimes[t] \o " (local time)"

\* a variant that returns only the hashtags that made it into the text
returnedHashtagsInText(hashtags, tweet) ==
    SelectSeq(hashtags, LAMBDA h : \E i \in 1..(Len(tweet) - Len(h) + 1) : SubSeq(tweet, i, i + Len(h) - 1) = h)

\* the field `hashtags` of the returned object: the derived list, whatever
\* became of the text
returnedHashtags(hashtags, tweet) == hashtags

\* `style.openings` on a tone the table does not have is a TypeError
tweetRaises(styles, in) == in.tone \notin DOMAIN styles

\* the error a generator call fails with
TypeError == [error |-> "TypeError"]

\* the indices Math.floor(Math.random() * list.length) can give
openingDraws(styles, in) == 1..Len(styles[in.tone].openings)

\* the emoji is drawn only when includeEmoji is set
emojiDraws(styles, in) == IF in.includeEmoji THEN 1..Len(styles[in.tone].emojis) ELSE {1}

timeDraws == 1..Len(TweetTimes)

\* o, e, t: the draws of Math.random() for opening, emoji and time;
\* styles: the table toneStyles as the call finds it
generateTweetFrom(styles, in, o, e, t) ==
    LET style    == styles[in.tone]
        opening  == style.openings[o]
        emoji    == IF in.includeEmoji THEN style.emojis[e] ELSE ""
        hashtags == IF in.includeHashtags THEN HashtagsOf(in.topic, 3) ELSE <<>>
        body     == tweetBody(in.tone, opening, in.topic)
        tweet0   == IF in.includeEmoji THEN emoji \o " " \o body ELSE body
        tweet1   == appendHashtags(tweet0, hashtags, in.includeHashtags, in.maxLength)
        tweet    == truncateTweet(tweet1, in.maxLength)
    IN [tweet |-> tweet,
        characterCount |-> Len(tweet),
        hashtags |-> returnedHashtags(hashtags, tweet),
        suggestedPostTime |-> getSuggestedPostTime(t)]

generateTweet(in, o, e, t) == generateTweetFrom(toneStyles, in, o, e, t)

\* ---- inputs of the Post Composer explored by the model ----

\* distance between two explored values of maxLength
TweetLengthStep == 46

\* length of the long topic
LongTopicChars == 90

TweetTopics ==
    {"X", "AI agents", "Open source payment rails", Repeat("micropayments for agents ", LongTopicChars)}

TweetMaxLengths ==
    {m \in TweetMinLength..TweetMaxLength : (m - TweetMinLength) % TweetLengthStep = 0} \cup {TweetMaxLength}

TweetInputs ==
    {in \in [topic : TweetTopics, tone : TweetTones, includeHashtags : BOOLEAN,
             includeEmoji : BOOLEAN, maxLength : TweetMaxLengths] :
        Len(in.topic) >= 1 /\ Len(in.topic) <= TopicMaxChars}

InitTweet ==
    /\ component = "tweet"
    /\ pc = "request"
    /\ input \in TweetInputs
    /\ output = <<>>
    /\ ServerOff

\* one call of generateTweet on the validated input
GenerateTweet ==
    /\ component = "tweet"
    /\ pc = "request"
    /\ IF tweetRaises(toneStyles, input)
       THEN /\ output' = TypeError
            /\ pc' = "failed"
       ELSE /\ \E o \in openingDraws(toneStyles, input),
                  e \in emojiDraws(toneStyles, input),
                  t \in timeDraws :
                    output' = generateTweet(input, o, e, t)
            /\ pc' = "done"
    /\ UNCHANGED <<component, input>>
    /\ UNCHANGED serverVars

NextTweet == GenerateTweet

SpecTweet == InitTweet /\ [][NextTweet]_vars

TweetDone == component = "tweet" /\ pc = "done"

\* C2: the Post Composer's characterCount is the length of the returned
\* text and never exceeds the requested maxLength, whatever opening phrase
\* and emoji were drawn.
C2_CharacterCountWithinMax ==
    TweetDone => /\ output.characterCount = Len(output.tweet)
                 /\ output.characterCount <= input.maxLength

\* a call whose composed text was too long and was cut to exactly maxLength
C2_Witness ==
    /\ TweetDone
    /\ output.characterCount = input.maxLength
    /\ SubSeq(output.tweet, Len(output.tweet) - 2, Len(output.tweet)) = "..."

(***************************************************************************)
(* Thread Composer: generateThread, src/src/generators/tweet.ts            *)
(***************************************************************************)
ThreadTones == {"educational", "storytelling", "listicle", "argumentative", "howto"}

\* z.number().min(3).max(15) of ThreadInputSchema.threadLength
ThreadMinLength == 3

ThreadMaxLength == 15

\* z.string().min(1).max(1000) of ThreadInputSchema.topic
ThreadTopicMaxChars == 1000

\* the limit of one tweet in the content loop
TweetLimit == 280

\* an optional value: <<>> when absent, <<v>> when present
Absent == <<>>

Present(v) == <<v>>

\* the per-tone template lists of generateOutlinePoints
templates(topic) ==
    [educational |->
        <<"Understanding the fundamentals of " \o topic \o " is crucial for anyone starting out.",
          "The key components include several interconnected elements that work together.",
          "Common misconceptions often lead people astray - here's the truth.",
          "Real-world applications show us how this works in practice.",
          "The future of " \o topic \o " looks promising with these emerging trends.",
          "Experts agree on these core principles that drive success.",
          "Here's what the research actually tells us about " \o topic \o ".">>,
     storytelling |->
        <<"The journey began with a simple question about " \o topic \o ".",
          "Obstacles appeared, but each one taught a valuable lesson.",
          "A breakthrough moment changed everything.",
          "The struggles led to unexpected discoveries.",
          "Looking back, the path becomes clear.",
          "The lessons learned apply far beyond " \o topic \o ".">>,
     listicle |->
        <<"This fundamental aspect of " \o topic \o " is often overlooked",
          "A game-changing insight that transforms your approach",
          "The most common mistake and how to avoid it",
          "An underrated strategy that delivers results",
          "The counterintuitive truth about " \o topic,
          "A quick win you can implement today",
          "The long-term perspective that matters most">>,
     argumentative |->
        <<"The conventional wisdom about " \o topic \o " misses a crucial point.",
          "Data from recent studies challenges the mainstream narrative.",
          "Historical precedent supports this alternative view.",
          "The incentive structures explain why this isn't discussed more.",
          "Practical experience confirms what theory suggests.",
          "The implications of accepting this are significant.">>,
     howto |->
        <<"Start by assessing your current situation with " \o topic \o ".",
          "Gather the essential resources you'll need for success.",
          "Execute this specific action to build momentum.",
          "Troubleshoot common issues that arise at this stage.",
          "Optimize your approach based on initial results.",
          "Scale up once you've mastered the fundamentals.">>]

\* for (let i = 0; i < count && i < available.length; i++) points.push(available[i])
generateOutlinePoints(topic, count, tone) ==
    LET available == templates(topic)[tone]
    IN SubSeq(available, 1, Min(Max(count, 0), Len(available)))

\* a variant that leaves no room for the call-to-action
contentCountIgnoringCTA(threadLength, includeHook, includeCTA) ==
    threadLength - (IF includeHook THEN 1 ELSE 0)

\* threadLength - (includeHook ? 1 : 0) - (includeCTA ? 1 : 0)
contentCountOf(threadLength, includeHook, includeCTA) ==
    threadLength - (IF includeHook THEN 1 ELSE 0) - (IF includeCTA THEN 1 ELSE 0)

\* a variant that treats the empty outline like a missing one
pointsOrTemplates(outline, topic, contentCount, tone) ==
    IF outline # Absent /\ Len(outline[1]) > 0 THEN outline[1]
    ELSE generateOutlinePoints(topic, contentCount, tone)

\* outline || generateOutlinePoints(topic, contentCount, tone): an array,
\* the empty one too, is truthy
pointsOf(outline, topic, contentCount, tone) ==
    IF outline # Absent THEN outline[1] ELSE generateOutlinePoints(topic, contentCount, tone)

\* a variant that numbers a unit by the units before it
positionStale(thread) == Len(thread)

\* position: thread.length + 1
nextPosition(thread) == Len(thread) + 1

\* decimal rendering of a loop index in a template literal
Digits == <<"0", "1", "2", "3", "4", "5", "6", "7", "8", "9">>

RECURSIVE NumToString(_)
NumToString(n) ==
    IF n < 0 THEN "-" \o NumToString(0 - n)
    ELSE IF n < 10 THEN Digits[n + 1]
    ELSE NumToString(n \div 10) \o Digits[(n % 10) + 1]

\* a variant that numbers the units of a listicle from 0
contentTweetFromZero(styles, tone, i, contentCount, point) ==
    LET style == styles[tone]
        content == IF tone = "listicle"
                   THEN NumToString(i) \o "/" \o NumToString(contentCount) \o " " \o point
                   ELSE IF tone = "howto"
                        THEN (IF i + 1 <= Len(style.transitions) THEN style.transitions[i + 1]
                              ELSE "Step " \o NumToString(i + 1) \o ":") \o " " \o point
                        ELSE style.transitions[(i % Len(style.transitions)) + 1] \o " " \o point
    IN IF Len(content) > TweetLimit THEN Slice(content, 0, TweetLimit - 3) \o "..." ELSE content

\* the text of content unit i (0-based), cut to the tweet limit
contentTweetFrom(styles, tone, i, contentCount, point) ==
    LET style == styles[tone]
        transition == IF tone = "listicle"
                      THEN NumToString(i + 1) \o "/" \o NumToString(contentCount)
                      ELSE style.transitions[(i % Len(style.transitions)) + 1]
        content == IF tone = "listicle" THEN transition \o " " \o point
                   ELSE IF tone = "howto"
                        THEN (IF i + 1 <= Len(style.transitions) THEN style.transitions[i + 1]
                              ELSE "Step " \o NumToString(i + 1) \o ":") \o " " \o point
                        ELSE transition \o " " \o point
    IN IF Len(content) > TweetLimit THEN Slice(content, 0, TweetLimit - 3) \o "..." ELSE content

contentTweet(tone, i, contentCount, point) == contentTweetFrom(threadStyles, tone, i, contentCount, point)

\* a variant that walks over every point
loopBoundAllPoints(contentCount, points) == Len(points)

\* Math.min(contentCount, points.length)
loopBound(contentCount, points) == Min(contentCount, Len(points))

\* the content loop: for (let i = 0; i < Math.min(contentCount, points.length); i++)
RECURSIVE pushContentFrom(_, _, _, _, _, _)
pushContentFrom(styles, thread, i, tone, contentCount, points) ==
    IF i < loopBound(contentCount, points)
    THEN LET content == contentTweetFrom(styles, tone, i, contentCount, points[i + 1])
         IN pushContentFrom(styles,
                            Append(thread, [position |-> nextPosition(thread),
                                            content |-> content,
                                            characterCount |-> Len(content)]),
                            i + 1, tone, contentCount, points)
    ELSE thread

pushContent(thread, i, tone, contentCount, points) ==
    pushContentFrom(threadStyles, thread, i, tone, contentCount, points)

RECURSIVE totalWordsOf(_)
totalWordsOf(thread) ==
    IF Len(thread) = 0 THEN 0 ELSE WordCount(thread[1].content) + totalWordsOf(Tail(thread))

\* Math.ceil(a / b) for a >= 0, b > 0
CeilDiv(a, b) == (a + b - 1) \div b

\* `style.hooks`, `style.transitions` or `style.ctas` on a tone the table
\* does not have is a TypeError; a call that reads none of them passes
threadRaises(styles, in) ==
    LET contentCount == contentCountOf(in.threadLength, in.includeHook, in.includeCTA)
        points       == pointsOf(in.outline, in.topic, contentCount, in.tone)
    IN /\ in.tone \notin DOMAIN styles
       /\ \/ in.includeHook
          \/ in.includeCTA
          \/ in.tone # "listicle" /\ loopBound(contentCount, points) > 0

\* the hook is drawn only when includeHook is set
hookDraws(styles, in) == IF in.includeHook THEN 1..Len(styles[in.tone].hooks) ELSE {1}

\* the call-to-action is drawn only when includeCTA is set
ctaDraws(styles, in) == IF in.includeCTA THEN 1..Len(styles[in.tone].ctas) ELSE {1}

\* h, c: the draws of Math.random() for hook and call-to-action;
\* styles: the table threadStyles as the call finds it
generateThreadFrom(styles, in, h, c) ==
    LET style    == styles[in.tone]
        hashtags == HashtagsOf(in.topic, 2)
        hookTweet == style.hooks[h] \o " " \o in.topic \o "\n\nA thread ~x~E"
        thread0  == IF in.includeHook
                    THEN <<[position |-> 1, content |-> hookTweet, characterCount |-> Len(hookTweet)]>>
                    ELSE <<>>
        contentCount == contentCountOf(in.threadLength, in.includeHook, in.includeCTA)
        points   == pointsOf(in.outline, in.topic, contentCount, in.tone)
        thread1  == pushContentFrom(styles, thread0, 0, in.tone, contentCount, points)
        ctaTweet == style.ctas[c] \o "\n\n" \o Join(hashtags, " ")
        thread   == IF in.includeCTA
                    THEN Append(thread1, [position |-> nextPosition(thread1), content |-> ctaTweet,
                                          characterCount |-> Len(ctaTweet)])
                    ELSE thread1
        readTimeMinutes == Max(1, CeilDiv(totalWordsOf(thread), 200))
    IN [thread |-> thread,
        totalTweets |-> Len(thread),
        topic |-> in.topic,
        estimatedReadTime |-> NumToString(readTimeMinutes) \o " min",
        hashtags |-> hashtags]

generateThread(in, h, c) == generateThreadFrom(threadStyles, in, h, c)

\* ---- inputs of the Thread Composer explored by the model ----

\* longest caller-supplied outline
MaxOutline == 3

\* length of the long topic and of the long outline point
LongThreadChars == 300

ShortThreadTopic == "AI agents"

LongThreadTopic == Repeat("decentralized payment rails ", LongThreadChars)

ThreadTopics == {ShortThreadTopic, LongThreadTopic}

OutlinePoints == {"Brief point one", Repeat("a point that goes on and on ", LongThreadChars)}

\* an outline with one point more than the howto tone has transitions
LongOutline == Present([i \in 1..(Len(threadStyles["howto"].transitions) + 1) |-> "Brief point one"])

Outlines ==
    {Absent} \cup {Present([i \in 1..k |-> p]) : k \in 0..MaxOutline, p \in OutlinePoints}
      \cup {LongOutline}

\* every combination for the short topic; the long topic is explored with
\* the built-in templates, which embed it
ThreadInputs ==
    {in \in [topic : ThreadTopics, outline : Outlines, threadLength : ThreadMinLength..ThreadMaxLength,
             tone : ThreadTones, includeHook : BOOLEAN, includeCTA : BOOLEAN] :
        /\ Len(in.topic) >= 1 /\ Len(in.topic) <= ThreadTopicMaxChars
        /\ in.topic = LongThreadTopic => in.outline = Absent}

InitThread ==
    /\ component = "thread"
    /\ pc = "request"
    /\ input \in ThreadInputs
    /\ output = <<>>
    /\ ServerOff

\* one call of generateThread on the validated input
GenerateThread ==
    /\ component = "thread"
    /\ pc = "request"
    /\ IF threadRaises(threadStyles, input)
       THEN /\ output' = TypeError
            /\ pc' = "failed"
       ELSE /\ \E h \in hookDraws(threadStyles, input),
                  c \in ctaDraws(threadStyles, input) :
                    output' = generateThread(input, h, c)
            /\ pc' = "done"
    /\ UNCHANGED <<component, input>>
    /\ UNCHANGED serverVars

NextThread == GenerateThread

SpecThread == InitThread /\ [][NextThread]_vars

ThreadDone == component = "thread" /\ pc = "done"

HookUnits == IF input.includeHook THEN 1 ELSE 0

CTAUnits == IF input.includeCTA THEN 1 ELSE 0

\* C3: totalTweets is the number of units of the thread and the unit at
\* 0-based index i carries position i+1, whichever of hook and
\* call-to-action are enabled.
C3_PositionsSequential ==
    ThreadDone => /\ output.totalTweets = Len(output.thread)
                  /\ \A i \in 1..Len(output.thread) : output.thread[i].position = i

\* a thread with hook, content units and call-to-action
C3_Witness ==
    /\ ThreadDone
    /\ input.includeHook /\ input.includeCTA
    /\ output.totalTweets >= 4
    /\ output.thread[output.totalTweets].position = output.totalTweets

\* the outline the caller supplied, when there is one
OutlineGiven == input.outline # Absent

SuppliedOutline == input.outline[1]

ContentCount == input.threadLength - HookUnits - CTAUnits

\* C4: totalTweets never exceeds the requested threadLength.
C4_TotalWithinThreadLength ==
    ThreadDone => output.totalTweets <= input.threadLength

\* a thread that reaches the requested length while part of the
\* caller's outline is left out
C4_Witness ==
    /\ ThreadDone
    /\ OutlineGiven
    /\ Len(SuppliedOutline) > ContentCount
    /\ output.totalTweets = input.threadLength

\* C5 as stated: with an outline of at least contentCount entries,
\* totalTweets equals threadLength if and only if both includeHook and
\* includeCTA are true.
C5_Original ==
    (ThreadDone /\ OutlineGiven /\ Len(SuppliedOutline) >= ContentCount)
        => ((output.totalTweets = input.threadLength) <=> (input.includeHook /\ input.includeCTA))

\* C5 as amended: with an outline of at least contentCount entries,
\* totalTweets equals threadLength, whatever includeHook and includeCTA are.
C5_TotalEqualsThreadLength ==
    (ThreadDone /\ OutlineGiven /\ Len(SuppliedOutline) >= ContentCount)
        => output.totalTweets = input.threadLength

\* a full-length thread without a hook
C5_Witness ==
    /\ ThreadDone
    /\ OutlineGiven
    /\ Len(SuppliedOutline) >= ContentCount
    /\ ~input.includeHook
    /\ output.totalTweets = input.threadLength

\* C6: an outline (the empty one included) shorter than contentCount
\* yields exactly one content unit per outline entry, built from that
\* entry and not from a template, so totalTweets is
\* hook + outline.length + cta and stays below threadLength.
C6_ShortOutlineShortThread ==
    (ThreadDone /\ OutlineGiven /\ Len(SuppliedOutline) < ContentCount)
        => /\ output.totalTweets = HookUnits + Len(SuppliedOutline) + CTAUnits
           /\ output.totalTweets < input.threadLength
           /\ \A j \in 1..Len(SuppliedOutline) :
                 output.thread[HookUnits + j].content
                     = contentTweet(input.tone, j - 1, ContentCount, SuppliedOutline[j])

\* threadLength 3 with hook and call-to-action and outline []: two units
C6_Witness ==
    /\ ThreadDone
    /\ input.threadLength = 3 /\ input.includeHook /\ input.includeCTA
    /\ OutlineGiven /\ Len(SuppliedOutline) = 0
    /\ output.totalTweets = 2

\* C7: without an outline and with hook and call-to-action enabled the
\* thread has exactly threadLength tweets, for every threadLength in 3..15
\* and every tone.
C7_ThreadLengthIsTweetCount ==
    (ThreadDone /\ ~OutlineGiven /\ input.includeHook /\ input.includeCTA)
        => output.totalTweets = input.threadLength

\* C8: every tweet of a generated thread has characterCount at most 280.
C8_EveryTweetWithinLimit ==
    ThreadDone => \A i \in 1..Len(output.thread) : output.thread[i].characterCount <= TweetLimit

(***************************************************************************)
(* Summary Extractor: generateSummary, src/src/generators/summary.ts       *)
(***************************************************************************)
SummaryFormats == {"bullets", "paragraph", "tldr", "keypoints", "executive"}

Audiences == {"general", "technical", "executive", "beginner"}

\* z.string().min(100).max(50000) of SummaryInputSchema.content
ContentMinChars == 100

ContentMaxChars == 50000

\* z.number().min(50).max(2000) of SummaryInputSchema.maxLength
SummaryMinLength == 50

SummaryMaxLength == 2000

\* the count passed to extractKeySentences
KeySentenceCount == 5

importanceIndicators ==
    <<"important", "key", "main", "significant", "critical",
      "essential", "fundamental", "primary", "central", "crucial",
      "notably", "specifically", "particularly", "especially",
      "first", "second", "finally", "conclusion", "result">>

\* String.prototype.includes
Includes(s, sub) ==
    \E i \in 1..(Len(s) - Len(sub) + 1) : SubSeq(s, i, i + Len(sub) - 1) = sub

\* Array.prototype.indexOf: 0-based index of the first equal element, or -1
IndexOf(seq, x) ==
    IF \E i \in 1..Len(seq) : seq[i] = x
    THEN (CHOOSE i \in 1..Len(seq) : seq[i] = x /\ \A j \in 1..(i - 1) : seq[j] # x) - 1
    ELSE -1

\* String.prototype.lastIndexOf for one character: 0-based, or -1
LastIndexOf(s, c) ==
    LET at == {i \in 1..Len(s) : CharAt(s, i) = c}
    IN IF at = {} THEN -1 ELSE (CHOOSE i \in at : \A j \in at : j <= i) - 1

\* a variant that keeps a fragment from ten trimmed characters on
splitSentencesFromTen(content) ==
    SelectSeq(SplitRuns(content, Terminators), LAMBDA f : Len(Trim(f)) >= 10)

\* content.split(/[.!?]+/).filter(s => s.trim().length > 10)
splitSentences(content) ==
    SelectSeq(SplitRuns(content, Terminators), LAMBDA f : Len(Trim(f)) > 10)

\* for (const indicator of importanceIndicators) if (lower.includes(indicator)) score += 2
RECURSIVE indicatorScore(_, _)
indicatorScore(lower, k) ==
    IF k > Len(importanceIndicators) THEN 0
    ELSE (IF Includes(lower, importanceIndicators[k]) THEN 2 ELSE 0) + indicatorScore(lower, k + 1)

\* the body of sentences.map(sentence => ...): the position is looked up
\* with sentences.indexOf(sentence)
scoreOf(sentence, sentences) ==
    LET lower == ToLowerCase(sentence)
        index == IndexOf(sentences, sentence)
        words == WordCount(sentence)
    IN indicatorScore(lower, 1)
         + (IF index = 0 THEN 3 ELSE 0)
         + (IF index = Len(sentences) - 1 THEN 2 ELSE 0)
         + (IF index < 3 THEN 1 ELSE 0)
         + (IF words >= 10 /\ words <= 30 THEN 1 ELSE 0)

\* insert x behind every element that does not sort after it: one step of
\* a stable sort under the comparator (a, b) => b.score - a.score
RECURSIVE insertByScore(_, _)
insertByScore(sorted, x) ==
    IF Len(sorted) = 0 THEN <<x>>
    ELSE IF sorted[Len(sorted)].score >= x.score THEN Append(sorted, x)
    ELSE Append(insertByScore(SubSeq(sorted, 1, Len(sorted) - 1), x), sorted[Len(sorted)])

\* .sort((a, b) => b.score - a.score): Array.prototype.sort is stable
RECURSIVE sortByScore(_)
sortByScore(scored) ==
    IF Len(scored) = 0 THEN <<>>
    ELSE insertByScore(sortByScore(SubSeq(scored, 1, Len(scored) - 1)), scored[Len(scored)])

\* one step of a stable sort under the comparator
\* (a, b) => sentences.indexOf(a.sentence) - sentences.indexOf(b.sentence)
RECURSIVE insertByIndex(_, _, _)
insertByIndex(sorted, x, sentences) ==
    IF Len(sorted) = 0 THEN <<x>>
    ELSE IF IndexOf(sentences, sorted[Len(sorted)].sentence) <= IndexOf(sentences, x.sentence)
         THEN Append(sorted, x)
    ELSE Append(insertByIndex(SubSeq(sorted, 1, Len(sorted) - 1), x, sentences), sorted[Len(sorted)])

RECURSIVE sortByIndex(_, _)
sortByIndex(selected, sentences) ==
    IF Len(selected) = 0 THEN <<>>
    ELSE insertByIndex(sortByIndex(SubSeq(selected, 1, Len(selected) - 1), sentences),
                       selected[Len(selected)], sentences)

\* a variant of .slice(0, count) that starts behind the best sentence
sliceAfterFirst(ranked, count) == SubSeq(ranked, 2, Min(count, Len(ranked)))

\* .slice(0, count)
sliceTop(ranked, count) == SubSeq(ranked, 1, Min(count, Len(ranked)))

\* a variant whose ranking puts the later of two equally scored sentences
\* first
extractKeySentencesTiesLast(sentences, count) ==
    LET n        == Len(sentences)
        scored   == [i \in 1..n |->
                        [sentence |-> sentences[n + 1 - i],
                         score |-> scoreOf(sentences[n + 1 - i], sentences)]]
        selected == sortByIndex(sliceTop(sortByScore(scored), count), sentences)
    IN [i \in 1..Len(selected) |-> selected[i].sentence]

\* sentences.map(score).sort(by score).slice(0, count).sort(by position)
\*   .map(s => s.sentence)
extractKeySentences(sentences, count) ==
    LET scored   == [i \in 1..Len(sentences) |->
                        [sentence |-> sentences[i], score |-> scoreOf(sentences[i], sentences)]]
        selected == sortByIndex(sliceTop(sortByScore(scored), count), sentences)
    IN [i \in 1..Len(selected) |-> selected[i].sentence]

\* s.replace(/^[^a-zA-Z]+/, '')
RECURSIVE stripLeadingNonLetters(_)
stripLeadingNonLetters(s) ==
    IF Len(s) > 0 /\ CharAt(s, 1) \notin LetterSet
    THEN stripLeadingNonLetters(SubSeq(s, 2, Len(s)))
    ELSE s

\* keysentences.map(s => s.trim().replace(/^[^a-zA-Z]+/, ''))
keyPointOf(sentence) == stripLeadingNonLetters(Trim(sentence))

\* content.match(/"[^"]+"/g) || []
quoteMatches(content) ==
    LET n == Len(content)
        marks == {j \in 1..n : CharAt(content, j) = "\""}
        NextQuote(i) == IF \E j \in marks : j >= i
                        THEN CHOOSE j \in marks : j >= i /\ \A k \in marks : k >= i => j <= k
                        ELSE 0
        RECURSIVE Go(_)
        Go(i) ==
            LET open  == IF i <= n THEN NextQuote(i) ELSE 0
                close == IF open # 0 /\ open < n THEN NextQuote(open + 1) ELSE 0
            IN IF open = 0 \/ close = 0 THEN <<>>
               ELSE IF close = open + 1 THEN Go(close)
               ELSE <<SubSeq(content, open, close)>> \o Go(close + 1)
    IN Go(1)

\* a variant that returns an empty list when quotes are not asked for
quotesOrEmpty(preserveQuotes, matches) ==
    IF preserveQuotes THEN Present(SubSeq(matches, 1, Min(3, Len(matches)))) ELSE Present(<<>>)

\* preserveQuotes ? quoteMatches.slice(0, 3) : undefined
quotesOf(preserveQuotes, matches) ==
    IF preserveQuotes THEN Present(SubSeq(matches, 1, Min(3, Len(matches)))) ELSE Absent

\* a variant that renders every key point
generateTLDRJoined(keyPoints, audience) ==
    LET point == IF Len(keyPoints) > 0 /\ Len(keyPoints[1]) > 0 THEN Join(keyPoints, " ")
                 ELSE "The content covers important topics."
    IN IF audience = "beginner" THEN "In simple terms: " \o point ELSE "TL;DR: " \o point

\* keyPoints[0] || fallback: the empty string is falsy too
generateTLDR(keyPoints, audience) ==
    LET point == IF Len(keyPoints) > 0 /\ Len(keyPoints[1]) > 0 THEN keyPoints[1]
                 ELSE "The content covers important topics."
    IN IF audience = "beginner" THEN "In simple terms: " \o point ELSE "TL;DR: " \o point

\* the two prefixes are three code units each in the source text
generateBullets(keyPoints, audience) ==
    LET prefix == IF audience = "executive" THEN "^^*" ELSE "^**"
    IN Join([i \in 1..Len(keyPoints) |-> prefix \o " " \o keyPoints[i]], "\n")

generateParagraph(keyPoints, audience) ==
    LET intro == CASE audience = "technical" -> "Technical summary: "
                   [] audience = "executive" -> "Executive overview: "
                   [] audience = "beginner" -> "Here's what you need to know: "
                   [] OTHER -> ""
    IN intro \o Join(keyPoints, ". ") \o "."

\* keyPoints.map((p, i) => `${i + 1}. ${p}`).join('\n')
numberedList(keyPoints) ==
    Join([i \in 1..Len(keyPoints) |-> NumToString(i) \o ". " \o keyPoints[i]], "\n")

\* the header symbols are four code units each in the source text
generateKeyPoints(keyPoints, audience) ==
    LET header == IF audience = "executive" THEN "^*^* Key Takeaways:\n\n" ELSE "^**^ Key Points:\n\n"
    IN header \o numberedList(keyPoints)

generateExecutive(keyPoints, audience, originalWords) ==
    "## Executive Summary\n"
      \o "**Document Length:** ~" \o NumToString(originalWords) \o " words\n"
      \o "\n### Key Findings:\n"
      \o numberedList(keyPoints)
      \o "\n\n### Recommendation:\n"
      \o "Review the full document for detailed analysis and supporting data."

\* a variant of the loop without the guard lines.length > 1: the first line
\* is removed too when it does not fit
popLinesToNone(summary, lines, maxLength) ==
    LET fits == {k \in 0..Len(lines) : Len(Join(SubSeq(lines, 1, k), "\n")) <= maxLength}
    IN Join(SubSeq(lines, 1, CHOOSE k \in fits : \A j \in fits : j <= k), "\n")

\* while (summary.length > maxLength && lines.length > 1) { lines.pop(); summary = lines.join('\n') }
RECURSIVE popLines(_, _, _)
popLines(summary, lines, maxLength) ==
    IF Len(summary) > maxLength /\ Len(lines) > 1
    THEN LET rest == SubSeq(lines, 1, Len(lines) - 1)
         IN popLines(Join(rest, "\n"), rest, maxLength)
    ELSE summary

\* a variant that cuts in front of the last period instead of behind it
truncateSummaryBeforePeriod(summary, maxLength, format) ==
    IF format = "bullets" \/ format = "keypoints"
    THEN popLines(summary, SplitEach(summary, {"\n"}), maxLength)
    ELSE IF Len(summary) <= maxLength THEN summary
    ELSE LET truncated    == Slice(summary, 0, maxLength)
             lastSentence == LastIndexOf(truncated, ".")
         IN IF 2 * lastSentence > maxLength
            THEN Slice(truncated, 0, lastSentence)
            ELSE Trim(truncated) \o "..."

\* truncateSummary: whole lines for bullets and keypoints, otherwise a cut
\* behind the last period past the middle, or a hard cut with an ellipsis
truncateSummary(summary, maxLength, format) ==
    IF format = "bullets" \/ format = "keypoints"
    THEN popLines(summary, SplitEach(summary, {"\n"}), maxLength)
    ELSE IF Len(summary) <= maxLength THEN summary
    ELSE LET truncated    == Slice(summary, 0, maxLength)
             lastSentence == LastIndexOf(truncated, ".")
         IN IF 2 * lastSentence > maxLength
            THEN Slice(truncated, 0, lastSentence + 1)
            ELSE Trim(truncated) \o "..."

\* a variant of toFixed(1) that drops the digits behind the first decimal
ToFixed1Truncating(num, den) ==
    LET abs    == IF num < 0 THEN 0 - num ELSE num
        tenths == (10 * abs) \div den
    IN (IF num < 0 THEN "-" ELSE "") \o NumToString(tenths \div 10) \o "." \o NumToString(tenths % 10)

\* x.toFixed(1) for x = num / den, den > 0: the sign, then the magnitude
\* rounded to the nearest tenth, a tie going to the larger magnitude; "-0.0"
\* for a negative value that rounds to zero
ToFixed1(num, den) ==
    LET abs    == IF num < 0 THEN 0 - num ELSE num
        tenths == (20 * abs + den) \div (2 * den)
    IN (IF num < 0 THEN "-" ELSE "") \o NumToString(tenths \div 10) \o "." \o NumToString(tenths % 10)

generateSummary(in) ==
    LET sentences         == splitSentences(in.content)
        originalWordCount == WordCount(in.content)
        keysentences      == extractKeySentences(sentences, KeySentenceCount)
        matches           == quoteMatches(in.content)
        quotes            == quotesOf(in.preserveQuotes, matches)
        keyPoints         == [i \in 1..Len(keysentences) |-> keyPointOf(keysentences[i])]
        rendered          == CASE in.format = "tldr" -> generateTLDR(keyPoints, in.targetAudience)
                               [] in.format = "bullets" -> generateBullets(keyPoints, in.targetAudience)
                               [] in.format = "paragraph" -> generateParagraph(keyPoints, in.targetAudience)
                               [] in.format = "keypoints" -> generateKeyPoints(keyPoints, in.targetAudience)
                               [] in.format = "executive" ->
                                    generateExecutive(keyPoints, in.targetAudience, originalWordCount)
        summary           == IF Len(rendered) > in.maxLength
                             THEN truncateSummary(rendered, in.maxLength, in.format)
                             ELSE rendered
        summaryWordCount  == WordCount(summary)
        readingTime       == Max(1, CeilDiv(summaryWordCount, 200))
    IN [summary |-> summary,
        format |-> in.format,
        keyPoints |-> keyPoints,
        wordCount |-> summaryWordCount,
        originalWordCount |-> originalWordCount,
        compressionRatio |->
            ToFixed1((originalWordCount - summaryWordCount) * 100, originalWordCount) \o "% reduction",
        readingTime |-> NumToString(readingTime) \o " min read",
        quotes |-> quotes]

\* generateSummary reads no table and dereferences no value that can be
\* missing: match() is guarded by `|| []`, keyPoints[0] by `|| fallback`
summaryRaises(in) == FALSE

\* ---- inputs of the Summary Extractor explored by the model ----

\* number of pieces a content is assembled from, at most
MaxPieces == 3

\* the explored maxLength between the two ends of its range
MidSummaryLength == 120

\* three sentences: one with three indicator words, one led by digits, one
\* that scores like the second
PieceKey ==
    "The key result of the study is important for everyone. 12 wind farms along the northern coast grew fast last year! Solar parks in the dry south added as much again by June. "

\* one short sentence holding a quotation
PieceCost == "Costs fell by \"nine percent\" or \"a tenth\" overall. "

\* fragments only: none is a candidate
PieceFragments == "Yes. No! Why? Ok. So? Go on. Not yet! Absolutely. "

Pieces == {PieceKey, PieceCost, PieceFragments}

RECURSIVE Concat(_)
Concat(seq) == IF Len(seq) = 0 THEN "" ELSE seq[1] \o Concat(Tail(seq))

\* a content of the least accepted length without one word in it
BlankContent == Repeat("          ", ContentMinChars)

Contents ==
    {c \in {Concat(ps) : ps \in UNION {[1..k -> Pieces] : k \in 1..MaxPieces}} :
        Len(c) >= ContentMinChars /\ Len(c) <= ContentMaxChars}
      \cup {BlankContent}

SummaryMaxLengths == {SummaryMinLength, MidSummaryLength, SummaryMaxLength}

SummaryInputs ==
    [content : Contents, format : SummaryFormats, maxLength : SummaryMaxLengths,
     targetAudience : Audiences, preserveQuotes : BOOLEAN]

InitSummary ==
    /\ component = "summary"
    /\ pc = "request"
    /\ input \in SummaryInputs
    /\ output = <<>>
    /\ ServerOff

\* one call of generateSummary on the validated input
GenerateSummary ==
    /\ component = "summary"
    /\ pc = "request"
    /\ IF summaryRaises(input)
       THEN /\ output' = TypeError
            /\ pc' = "failed"
       ELSE /\ output' = generateSummary(input)
            /\ pc' = "done"
    /\ UNCHANGED <<component, input>>
    /\ UNCHANGED serverVars

NextSummary == GenerateSummary

SpecSummary == InitSummary /\ [][NextSummary]_vars

SummaryDone == component = "summary" /\ pc = "done"

\* C1: the returned summary is never longer than maxLength.
C1_SummaryWithinMaxLength ==
    SummaryDone => Len(output.summary) <= input.maxLength

\* the candidate sentences of the request, cleaned the way key points are
CandidatePoints ==
    LET sentences == splitSentences(input.content)
    IN [i \in 1..Len(sentences) |-> keyPointOf(sentences[i])]

\* sub can be read off seq at strictly increasing positions
RECURSIVE IsSubsequence(_, _)
IsSubsequence(sub, seq) ==
    IF Len(sub) = 0 THEN TRUE
    ELSE IF Len(seq) = 0 THEN FALSE
    ELSE IF sub[1] = seq[1] THEN IsSubsequence(Tail(sub), Tail(seq))
    ELSE IsSubsequence(sub, Tail(seq))

\* C9: keyPoints appear in document order: the sequence can be read off the
\* candidate sentences at strictly increasing positions, also when the same
\* sentence text occurs more than once.
C9_KeyPointsInDocumentOrder ==
    SummaryDone => IsSubsequence(output.keyPoints, CandidatePoints)

\* C10 as stated: with format tldr every valid content yields at least one
\* key point.
C10_Original ==
    (SummaryDone /\ input.format = "tldr") => Len(output.keyPoints) >= 1

\* C10 as amended: with format tldr there is at least one key point exactly
\* when the content has at least one candidate sentence; content made of
\* short fragments only yields no key point.
C10_KeyPointIffCandidate ==
    (SummaryDone /\ input.format = "tldr")
        => (Len(output.keyPoints) >= 1 <=> Len(splitSentences(input.content)) >= 1)

\* a tldr summary of a content that has exactly one candidate sentence
C10_Witness ==
    /\ SummaryDone
    /\ input.format = "tldr"
    /\ Len(splitSentences(input.content)) = 1
    /\ Len(output.keyPoints) = 1

\* ---- the tldr rendering ----

StartsWith(s, prefix) == Len(s) >= Len(prefix) /\ SubSeq(s, 1, Len(prefix)) = prefix

EndsWith(s, suffix) == Len(s) >= Len(suffix) /\ SubSeq(s, Len(s) - Len(suffix) + 1, Len(s)) = suffix

TldrDone == SummaryDone /\ input.format = "tldr"

TldrPrefix == IF input.targetAudience = "beginner" THEN "In simple terms: " ELSE "TL;DR: "

\* what follows the prefix in the returned summary
TldrRest == Slice(output.summary, Len(TldrPrefix), Len(output.summary))

\* rest is point, or a beginning of point closed by an ellipsis
IsPointOrCut(rest, point) ==
    \/ rest = point
    \/ /\ EndsWith(rest, "...")
       /\ StartsWith(point, SubSeq(rest, 1, Len(rest) - 3))

NoPointSentence == "The content covers important topics."

\* C11 as stated: with format tldr the summary is the audience's prefix
\* followed by the first key point only (possibly cut by truncation).
C11_Original ==
    TldrDone => /\ Len(output.keyPoints) >= 1
                /\ StartsWith(output.summary, TldrPrefix)
                /\ IsPointOrCut(TldrRest, output.keyPoints[1])

\* C11: with format tldr the summary, also after truncation, begins with
\* "In simple terms: " for the beginner audience and "TL;DR: " otherwise; the
\* prefix is followed by the first key point only, or, when there is no
\* non-empty first key point, by the fixed sentence "The content covers
\* important topics."; truncation may cut what follows the prefix and close it
\* with an ellipsis.
C11_TldrPrefixThenFirstPoint ==
    TldrDone =>
        /\ StartsWith(output.summary, TldrPrefix)
        /\ IF Len(output.keyPoints) >= 1 /\ Len(output.keyPoints[1]) > 0
           THEN IsPointOrCut(TldrRest, output.keyPoints[1])
           ELSE IsPointOrCut(TldrRest, NoPointSentence)

\* a truncated tldr for beginners over a content with several key points
C11_Witness ==
    /\ TldrDone
    /\ input.targetAudience = "beginner"
    /\ Len(output.keyPoints) >= 2
    /\ EndsWith(output.summary, "...")
    /\ Len(TldrRest) < Len(output.keyPoints[1])

\* ---- the hashtags of the Post Composer ----

\* the text before the hashtag block, for the draws o and e
ComposedBody(o, e) ==
    LET style == toneStyles[input.tone]
        body  == tweetBody(input.tone, style.openings[o], input.topic)
    IN IF input.includeEmoji THEN style.emojis[e] \o " " \o body ELSE body

\* a blank line and the hashtags joined by spaces
HashtagBlock(hashtags) == "\n\n" \o Join(hashtags, " ")

LongWords(topic) == SelectSeq(SplitRuns(topic, WhiteSpace), LAMBDA w : Len(w) > 3)

\* the word in lower case with its first letter in upper case
Capitalized(w) ==
    LET lower == ToLowerCase(w)
    IN UpperChar(CharAt(lower, 1)) \o SubSeq(lower, 2, Len(lower))

\* C13: the hashtags are exactly the first (at most 3) whitespace-separated
\* topic words longer than 3 characters, in topic order, each capitalized
\* and prefixed with '#'; the list is empty when no word is that long or when
\* includeHashtags is false; topic "AI agents" yields exactly #Agents.
C13_HashtagsFromLongWords ==
    TweetDone =>
        LET long == LongWords(input.topic)
        IN /\ input.includeHashtags =>
                /\ Len(output.hashtags) = Min(3, Len(long))
                /\ \A i \in 1..Len(output.hashtags) : output.hashtags[i] = "#" \o Capitalized(long[i])
           /\ ~input.includeHashtags => output.hashtags = <<>>
           /\ (input.includeHashtags /\ input.topic = "AI agents") => output.hashtags = <<"#Agents">>

\* a topic of four long words gives the first three
C13_Witness ==
    /\ TweetDone
    /\ input.includeHashtags
    /\ Len(LongWords(input.topic)) > 3
    /\ output.hashtags = <<"#Open", "#Source", "#Payment">>

\* ---- the quotes of the Summary Extractor ----

\* q is delimited by double quotes and has none inside
IsQuoted(q) ==
    /\ Len(q) >= 3
    /\ CharAt(q, 1) = "\"" /\ CharAt(q, Len(q)) = "\""
    /\ \A i \in 2..(Len(q) - 1) : CharAt(q, i) # "\""

\* the elements of qs occur in content one after the other, without overlap
RECURSIVE OccurInOrder(_, _, _)
OccurInOrder(qs, content, from) ==
    IF Len(qs) = 0 THEN TRUE
    ELSE LET q  == qs[1]
             at == {i \in from..(Len(content) - Len(q) + 1) : SubSeq(content, i, i + Len(q) - 1) = q}
         IN /\ at # {}
            /\ OccurInOrder(Tail(qs), content, (CHOOSE i \in at : \A j \in at : i <= j) + Len(q))

InitAll == InitTweet \/ InitThread \/ InitSummary

NextAll == GenerateTweet \/ GenerateThread \/ GenerateSummary

SpecAll == InitAll /\ [][NextAll]_vars

\* the fields of the object each generator returns
ResultFields ==
    [tweet   |-> {"tweet", "characterCount", "hashtags", "suggestedPostTime"},
     thread  |-> {"thread", "totalTweets", "topic", "estimatedReadTime", "hashtags"},
     summary |-> {"summary", "format", "keyPoints", "wordCount", "originalWordCount",
                  "compressionRatio", "readingTime", "quotes"}]

Returned == pc = "done" /\ DOMAIN output = ResultFields[component]

\* the pending call has draws to proceed with and raises nothing
CanReturn ==
    CASE component = "tweet" ->
           /\ ~tweetRaises(toneStyles, input)
           /\ openingDraws(toneStyles, input) # {}
           /\ emojiDraws(toneStyles, input) # {}
           /\ timeDraws # {}
      [] component = "thread" ->
           /\ ~threadRaises(threadStyles, input)
           /\ hookDraws(threadStyles, input) # {}
           /\ ctaDraws(threadStyles, input) # {}
      [] component = "summary" -> ~summaryRaises(input)

\* C17: for every in-bounds input each of the three generators terminates
\* and returns a result object: a pending call always has an outcome, the
\* outcome is never the failure state, and what it returns is the result
\* object of its generator.
C17_GeneratorsAlwaysReturn ==
    /\ pc # "failed"
    /\ pc = "request" => CanReturn
    /\ pc = "done" => Returned

\* a Thread Composer call at the upper bound of threadLength that returned
C17_Witness ==
    /\ Returned
    /\ component = "thread"
    /\ input.threadLength = ThreadMaxLength
    /\ output.totalTweets >= 1

(***************************************************************************)
(* The HTTP servers of src/src/index.ts: the mock server (lines 1-196) and *)
(* the x402 server (lines 198-499).  A request walks through the           *)
(* middleware in the order of registration; the steps of different         *)
(* requests interleave freely.                                             *)
(***************************************************************************)
Servers == {"mock", "x402"}

FreeRoutes == {"GET /health", "GET /discover"}

PaidRoutes == {"POST /generate/tweet", "POST /generate/thread", "POST /generate/summary"}

\* the keys of the object paymentRoutes handed to paymentMiddleware
paymentRoutes == {"POST /generate/tweet", "POST /generate/thread", "POST /generate/summary"}

\* a variant in which the x402 server registers the payment middleware
\* ahead of the two GET handlers
PipelinePaymentFirst ==
    [mock |-> <<"json", "free", "paid">>,
     x402 |-> <<"json", "cors", "payment", "free", "paid">>]

\* the middleware and handlers of each server in the order of registration;
\* "free" are the two GET handlers, "paid" the three POST handlers
Pipeline ==
    [mock |-> <<"json", "free", "paid">>,
     x402 |-> <<"json", "cors", "free", "payment", "paid">>]

\* app.use(...) sees every request, app.get and app.post only their route
Matches(middleware, route) ==
    CASE middleware = "free" -> route \in FreeRoutes
      [] middleware = "paid" -> route \in PaidRoutes
      [] OTHER -> TRUE

\* ---- the zod schemas: defaults, then the checks of each field ----

TweetDefaults ==
    [tone |-> "casual", includeHashtags |-> TRUE, includeEmoji |-> TRUE, maxLength |-> TweetMaxLength]

ThreadDefaults ==
    [outline |-> Absent, threadLength |-> 5, tone |-> "educational", includeHook |-> TRUE,
     includeCTA |-> TRUE]

SummaryDefaults ==
    [format |-> "bullets", maxLength |-> 500, targetAudience |-> "general", preserveQuotes |-> FALSE]

\* the paths of the issues TweetInputSchema.parse reports for the body v
tweetIssues(v) ==
    LET in == v @@ TweetDefaults
        Ok(k) == CASE k = "topic" -> "topic" \in DOMAIN in /\ Len(in.topic) >= 1
                                     /\ Len(in.topic) <= TopicMaxChars
                   [] k = "tone" -> in.tone \in TweetTones
                   [] k = "maxLength" -> in.maxLength >= TweetMinLength /\ in.maxLength <= TweetMaxLength
    IN SelectSeq(<<"topic", "tone", "maxLength">>, LAMBDA k : ~Ok(k))

threadIssues(v) ==
    LET in == v @@ ThreadDefaults
        Ok(k) == CASE k = "topic" -> "topic" \in DOMAIN in /\ Len(in.topic) >= 1
                                     /\ Len(in.topic) <= ThreadTopicMaxChars
                   [] k = "threadLength" -> in.threadLength >= ThreadMinLength
                                            /\ in.threadLength <= ThreadMaxLength
                   [] k = "tone" -> in.tone \in ThreadTones
    IN SelectSeq(<<"topic", "threadLength", "tone">>, LAMBDA k : ~Ok(k))

summaryIssues(v) ==
    LET in == v @@ SummaryDefaults
        Ok(k) == CASE k = "content" -> "content" \in DOMAIN in /\ Len(in.content) >= ContentMinChars
                                       /\ Len(in.content) <= ContentMaxChars
                   [] k = "format" -> in.format \in SummaryFormats
                   [] k = "maxLength" -> in.maxLength >= SummaryMinLength
                                         /\ in.maxLength <= SummaryMaxLength
                   [] k = "targetAudience" -> in.targetAudience \in Audiences
    IN SelectSeq(<<"content", "format", "maxLength", "targetAudience">>, LAMBDA k : ~Ok(k))

\* Schema.parse(req.body) of the handler of the route: the validated input,
\* or the issues of the ZodError it throws
parseBody(route, v) ==
    CASE route = "POST /generate/tweet" ->
           [value |-> v @@ TweetDefaults, issues |-> tweetIssues(v)]
      [] route = "POST /generate/thread" ->
           [value |-> v @@ ThreadDefaults, issues |-> threadIssues(v)]
      [] route = "POST /generate/summary" ->
           [value |-> v @@ SummaryDefaults, issues |-> summaryIssues(v)]

\* ---- the requests explored by the model ----

\* what the facilitator says about the payment a request carries
Payments == {"none", "rejected", "accepted"}

NoBody == [kind |-> "none", value |-> [raw |-> ""]]

\* a body express.json() cannot parse
MalformedBody == [kind |-> "malformed", value |-> [raw |-> "{topic:"]]

Json(v) == [kind |-> "json", value |-> v]

\* maxLength of the explored tweet request: the hashtag block fits after the
\* two short openings and not after the two long ones
ServedTweetLength == 105

BodiesOf(route) ==
    CASE route = "POST /generate/tweet" ->
           {Json([topic |-> "AI agents", includeEmoji |-> FALSE, maxLength |-> ServedTweetLength]),
            Json([topic |-> "AI agents", maxLength |-> TweetMaxLength + 20]),
            MalformedBody}
      [] route = "POST /generate/thread" ->
           {Json([topic |-> "AI agents", threadLength |-> ThreadMinLength]),
            Json([threadLength |-> ThreadMinLength]),
            MalformedBody}
      [] route = "POST /generate/summary" ->
           {Json([content |-> PieceKey, format |-> "tldr"]),
            Json([content |-> "Too short."]),
            MalformedBody}

NoResponse == [pending |-> TRUE]

\* a request as it arrives at the first middleware
NewRequest(route, payment, body) ==
    [route |-> route, payment |-> payment, body |-> body,
     at |-> 1, stage |-> "pending", passed |-> <<>>, verified |-> FALSE, generated |-> FALSE,
     error |-> "", status |-> 0, response |-> NoResponse]

Arrivals ==
    {NewRequest(x[1], x[2], x[3]) :
        x \in (FreeRoutes \X Payments \X {NoBody})
               \cup UNION {{rt} \X Payments \X BodiesOf(rt) : rt \in PaidRoutes}}

\* the requests in flight together
RequestIds == {1, 2}

InitServer ==
    /\ component = "server"
    /\ pc = "serving"
    /\ input = <<>>
    /\ output = <<>>
    /\ server \in Servers
    /\ requests \in [RequestIds -> Arrivals]
    /\ tables = StyleTables

\* request r is about to enter the middleware
At(r, middleware) ==
    /\ requests[r].stage = "pending"
    /\ Pipeline[server][requests[r].at] = middleware

\* next(): the position of the next middleware or handler that takes the route
nextMatch(srv, route, i) ==
    CHOOSE j \in (i + 1)..Len(Pipeline[srv]) :
        /\ Matches(Pipeline[srv][j], route)
        /\ \A k \in (i + 1)..(j - 1) : ~Matches(Pipeline[srv][k], route)

Pass(req, middleware) ==
    [req EXCEPT !.at = nextMatch(server, req.route, req.at), !.passed = Append(@, middleware)]

\* next(err): the request skips to the error middleware
Fail(req, middleware, err) ==
    [req EXCEPT !.stage = "error", !.error = err, !.passed = Append(@, middleware)]

\* res.status(status).json(body)
Answer(req, middleware, status, body) ==
    [req EXCEPT !.stage = "responded", !.status = status, !.response = body,
                !.passed = Append(@, middleware)]

\* ---- the middleware and handlers, one action each ----

\* express.json(): a body that is not JSON goes to the error middleware
ParseJson(r) ==
    /\ At(r, "json")
    /\ requests' = [requests EXCEPT ![r] =
                        IF @.body.kind = "malformed" THEN Fail(@, "json", "SyntaxError")
                        ELSE Pass(@, "json")]
    /\ UNCHANGED <<server, tables>>
    /\ UNCHANGED callVars

Method(route) == IF route \in FreeRoutes THEN "GET" ELSE "POST"

\* the CORS middleware of the x402 server answers OPTIONS itself
Cors(r) ==
    /\ At(r, "cors")
    /\ requests' = [requests EXCEPT ![r] =
                        IF Method(@.route) = "OPTIONS" THEN Answer(@, "cors", 200, NoResponse)
                        ELSE Pass(@, "cors")]
    /\ UNCHANGED <<server, tables>>
    /\ UNCHANGED callVars

HealthInfo == [status |-> "healthy", service |-> "@upskill/content-gen", version |-> "1.0.0"]

DiscoverInfo ==
    [name |-> "UPSKILL Content Generation", version |-> "1.0.0",
     endpoints |-> <<"/generate/tweet", "/generate/thread", "/generate/summary">>]

\* GET /health and GET /discover
ServeFree(r) ==
    /\ At(r, "free")
    /\ requests' = [requests EXCEPT ![r] =
                        Answer(@, "free", 200,
                               IF @.route = "GET /health" THEN HealthInfo ELSE DiscoverInfo)]
    /\ UNCHANGED <<server, tables>>
    /\ UNCHANGED callVars

PaymentRequired == [error |-> "Payment Required"]

\* paymentMiddleware(paymentRoutes, server): a route it protects goes on
\* only with a payment the facilitator accepts; other routes pass
VerifyPayment(r) ==
    /\ At(r, "payment")
    /\ requests' = [requests EXCEPT ![r] =
                        IF @.route \notin paymentRoutes THEN Pass(@, "payment")
                        ELSE IF @.payment = "accepted"
                             THEN [Pass(@, "payment") EXCEPT !.verified = TRUE]
                             ELSE Answer(@, "payment", 402, PaymentRequired)]
    /\ UNCHANGED <<server, tables>>
    /\ UNCHANGED callVars

\* a variant of the draw that takes the drawn element out of the list
spliceAt(list, k) == SubSeq(list, 1, k - 1) \o SubSeq(list, k + 1, Len(list))

\* the list after list[Math.floor(Math.random() * list.length)]: as before
afterRead(list, k) == list

InvalidInput(issues) == [error |-> "Invalid input", details |-> issues]

\* a variant of the catch block that hands every error on
catchErrorForward(req, name, issues) == Fail(req, "paid", name)

\* the catch block of a paid handler: a ZodError is answered 400 with its
\* issues, any other error goes to the error middleware
catchError(req, name, issues) ==
    IF name = "ZodError" THEN Answer(req, "paid", 400, InvalidInput(issues))
    ELSE Fail(req, "paid", name)

\* the result is there, the handler is at its await
Computed(req, result) ==
    [req EXCEPT !.stage = "awaiting", !.generated = TRUE, !.response = result,
                !.passed = Append(@, "paid")]

\* POST /generate/tweet up to `await generateTweet(input)`
HandleTweet(r) ==
    /\ At(r, "paid")
    /\ requests[r].route = "POST /generate/tweet"
    /\ LET req    == requests[r]
           parsed == parseBody(req.route, req.body.value)
           in     == parsed.value
       IN IF parsed.issues # <<>>
          THEN /\ requests' = [requests EXCEPT ![r] = catchError(req, "ZodError", parsed.issues)]
               /\ tables' = tables
          ELSE IF tweetRaises(tables.tone, in)
          THEN /\ requests' = [requests EXCEPT ![r] = catchError(req, "TypeError", <<>>)]
               /\ tables' = tables
          ELSE \E o \in openingDraws(tables.tone, in), e \in emojiDraws(tables.tone, in), t \in timeDraws :
                 /\ requests' = [requests EXCEPT ![r] =
                                     Computed(req, generateTweetFrom(tables.tone, in, o, e, t))]
                 /\ tables' = [tables EXCEPT
                                  !.tone[in.tone].openings = afterRead(@, o),
                                  !.tone[in.tone].emojis = IF in.includeEmoji THEN afterRead(@, e) ELSE @]
    /\ UNCHANGED server
    /\ UNCHANGED callVars

\* POST /generate/thread up to `await generateThread(input)`
HandleThread(r) ==
    /\ At(r, "paid")
    /\ requests[r].route = "POST /generate/thread"
    /\ LET req    == requests[r]
           parsed == parseBody(req.route, req.body.value)
           in     == parsed.value
       IN IF parsed.issues # <<>>
          THEN /\ requests' = [requests EXCEPT ![r] = catchError(req, "ZodError", parsed.issues)]
               /\ tables' = tables
          ELSE IF threadRaises(tables.thread, in)
          THEN /\ requests' = [requests EXCEPT ![r] = catchError(req, "TypeError", <<>>)]
               /\ tables' = tables
          ELSE \E h \in hookDraws(tables.thread, in), c \in ctaDraws(tables.thread, in) :
                 /\ requests' = [requests EXCEPT ![r] =
                                     Computed(req, generateThreadFrom(tables.thread, in, h, c))]
                 /\ tables' = [tables EXCEPT
                                  !.thread[in.tone].hooks = IF in.includeHook THEN afterRead(@, h) ELSE @,
                                  !.thread[in.tone].ctas = IF in.includeCTA THEN afterRead(@, c) ELSE @]
    /\ UNCHANGED server
    /\ UNCHANGED callVars

\* POST /generate/summary up to `await generateSummary(input)`
HandleSummary(r) ==
    /\ At(r, "paid")
    /\ requests[r].route = "POST /generate/summary"
    /\ LET req    == requests[r]
           parsed == parseBody(req.route, req.body.value)
       IN requests' = [requests EXCEPT ![r] =
                          IF parsed.issues # <<>> THEN catchError(req, "ZodError", parsed.issues)
                          ELSE IF summaryRaises(parsed.value) THEN catchError(req, "TypeError", <<>>)
                          ELSE Computed(req, generateSummary(parsed.value))]
    /\ UNCHANGED <<server, tables>>
    /\ UNCHANGED callVars

\* res.json(result) once the await is over
Respond(r) ==
    /\ requests[r].stage = "awaiting"
    /\ requests' = [requests EXCEPT ![r] = [@ EXCEPT !.stage = "responded", !.status = 200]]
    /\ UNCHANGED <<server, tables>>
    /\ UNCHANGED callVars

InternalError(message) == [error |-> "Internal server error", message |-> message]

\* the error-handling middleware
HandleError(r) ==
    /\ requests[r].stage = "error"
    /\ requests' = [requests EXCEPT ![r] = Answer(@, "error", 500, InternalError(@.error))]
    /\ UNCHANGED <<server, tables>>
    /\ UNCHANGED callVars

NextServer ==
    \/ \E r \in DOMAIN requests : ParseJson(r)
    \/ \E r \in DOMAIN requests : Cors(r)
    \/ \E r \in DOMAIN requests : ServeFree(r)
    \/ \E r \in DOMAIN requests : VerifyPayment(r)
    \/ \E r \in DOMAIN requests : HandleTweet(r)
    \/ \E r \in DOMAIN requests : HandleThread(r)
    \/ \E r \in DOMAIN requests : HandleSummary(r)
    \/ \E r \in DOMAIN requests : Respond(r)
    \/ \E r \in DOMAIN requests : HandleError(r)

SpecServer == InitServer /\ [][NextServer]_vars

\* ---- payment gate and free endpoints ----

Paid(r) == requests[r].route \in PaidRoutes

Free(r) == requests[r].route \in FreeRoutes

Responded(r) == requests[r].stage = "responded"

\* C15: on each paid endpoint the generator is invoked for a request only
\* after payment verification has succeeded for that request; a request
\* without an accepted payment is answered 402 Payment Required and never
\* receives generated content.
C15_GeneratorOnlyAfterPayment ==
    \A r \in DOMAIN requests :
        Paid(r) =>
            /\ requests[r].generated => requests[r].verified
            /\ (Responded(r) /\ requests[r].payment # "accepted") =>
                    /\ requests[r].status = 402
                    /\ ~requests[r].generated

FailsValidation(r) ==
    /\ Paid(r)
    /\ requests[r].body.kind = "json"
    /\ parseBody(requests[r].route, requests[r].body.value).issues # <<>>

\* request r has been through the handler of its route
Handled(r) == \E i \in 1..Len(requests[r].passed) : requests[r].passed[i] = "paid"

\* C18: a request body that fails schema validation on a generation
\* endpoint is answered with status 400 and the structured body
\* {error: 'Invalid input', details}; no content is generated for it and it is
\* never reported as a 500; only failures other than validation failures
\* reach the 500 handler.
C18_ValidationFailureIs400 ==
    \A r \in DOMAIN requests :
        /\ FailsValidation(r) =>
              /\ ~requests[r].generated
              /\ requests[r].stage # "error"
              /\ requests[r].status # 500
              /\ Handled(r) =>
                    /\ Responded(r)
                    /\ requests[r].status = 400
                    /\ requests[r].response =
                          InvalidInput(parseBody(requests[r].route, requests[r].body.value).issues)
        /\ (requests[r].stage = "error" \/ requests[r].status = 500) =>
              /\ requests[r].error \in {"SyntaxError", "TypeError"}
              /\ ~FailsValidation(r)

\* one request was answered 400 for its maxLength, the other reached the 500
\* handler with a body that is not JSON
C18_Witness ==
    \E r, q \in DOMAIN requests :
        /\ requests[r].status = 400
        /\ requests[r].response = InvalidInput(<<"maxLength">>)
        /\ requests[q].status = 500
        /\ requests[q].response = InternalError("SyntaxError")

\* ---- independence of concurrent requests ----

\* the bodies of the route that pass its schema
ValidBodies(route) ==
    {b \in BodiesOf(route) : b.kind = "json" /\ parseBody(route, b.value).issues = <<>>}

\* the results a generation request could get from its generator when run
\* alone, for every route and valid body
AloneResults ==
    [route \in PaidRoutes |->
        [b \in ValidBodies(route) |->
            LET in == parseBody(route, b.value).value
            IN CASE route = "POST /generate/tweet" ->
                      {generateTweet(in, o, e, t) : o \in openingDraws(toneStyles, in),
                                                    e \in emojiDraws(toneStyles, in), t \in timeDraws}
                 [] route = "POST /generate/thread" ->
                      {generateThread(in, h, c) : h \in hookDraws(threadStyles, in),
                                                  c \in ctaDraws(threadStyles, in)}
                 [] route = "POST /generate/summary" -> {generateSummary(in)}]]

\* C19: requests are independent under any interleaving: each result is
\* one the same request could produce when run alone, and the shared style
\* tables toneStyles and threadStyles are the same before and after any
\* sequence of requests.
C19_RequestsIndependent ==
    /\ tables = StyleTables
    /\ \A r \in DOMAIN requests :
          requests[r].generated =>
              requests[r].response \in AloneResults[requests[r].route][requests[r].body]

\* two tweet requests were both computed before either was answered, and
\* got different texts
C19_Witness ==
    /\ \A r \in DOMAIN requests :
          /\ requests[r].route = "POST /generate/tweet"
          /\ requests[r].stage = "awaiting"
    /\ requests[1].body = requests[2].body
    /\ requests[1].response.tweet # requests[2].response.tweet

\* ---- two calls of a component with the same input ----

\* the emoji draw multiplies the pairs of results, so it is explored with
\* one input
TwiceTweetInputs ==
    {in \in [topic : {"AI agents", "Open source payment rails"}, tone : {"casual", "humorous"},
             includeHashtags : BOOLEAN, includeEmoji : BOOLEAN,
             maxLength : {ServedTweetLength, TweetMaxLength}] :
        in.includeEmoji => /\ in.topic = "AI agents" /\ in.tone = "casual"
                           /\ in.includeHashtags /\ in.maxLength = ServedTweetLength}

TwiceThreadInputs ==
    {in \in ThreadInputs :
        /\ in.topic = ShortThreadTopic
        /\ in.threadLength \in {ThreadMinLength, 5, ThreadMaxLength}
        /\ in.outline \in {Absent, Present(<<"Brief point one", "Brief point one">>)}}

InitTwice ==
    /\ \/ component = "tweet" /\ input \in TwiceTweetInputs
       \/ component = "thread" /\ input \in TwiceThreadInputs
    /\ pc = "request"
    /\ output = <<>>
    /\ ServerOff

\* the results returned so far, and where the caller stands after this one
Returning(result) ==
    /\ output' = Append(output, result)
    /\ pc' = IF Len(output) = 1 THEN "done" ELSE "request"

\* a call of generateTweet; the second call has the input of the first
CallTweet ==
    /\ component = "tweet"
    /\ pc = "request"
    /\ \E o \in openingDraws(toneStyles, input), e \in emojiDraws(toneStyles, input), t \in timeDraws :
          Returning(generateTweet(input, o, e, t))
    /\ UNCHANGED <<component, input>>
    /\ UNCHANGED serverVars

\* a call of generateThread; the second call has the input of the first
CallThread ==
    /\ component = "thread"
    /\ pc = "request"
    /\ \E h \in hookDraws(threadStyles, input), c \in ctaDraws(threadStyles, input) :
          Returning(generateThread(input, h, c))
    /\ UNCHANGED <<component, input>>
    /\ UNCHANGED serverVars

NextTwice == CallTweet \/ CallThread

SpecTwice == InitTwice /\ [][NextTwice]_vars

CalledTwice == pc = "done" /\ Len(output) = 2

Positions(result) == [i \in 1..Len(result.thread) |-> result.thread[i].position]

Fragments(content) == SplitRuns(content, Terminators)

\* the number of characters of a fragment that are not whitespace
NonWhitespaceCount(f) ==
    Cardinality({i \in 1..Len(f) : CharAt(f, i) \notin WhiteSpace})

\* the number of characters from the first to the last character that is not
\* whitespace, whitespace in between included
InnerLength(f) ==
    LET at == {i \in 1..Len(f) : CharAt(f, i) \notin WhiteSpace}
    IN IF at = {} THEN 0
       ELSE (CHOOSE i \in at : \A j \in at : j <= i)
              - (CHOOSE i \in at : \A j \in at : j >= i) + 1

\* C21 as stated: the candidate sentences are, in source order, the fragments
\* with at least 10 non-whitespace characters; a fragment with fewer is
\* discarded.
C21_Original ==
    SummaryDone =>
        splitSentences(input.content)
          = SelectSeq(Fragments(input.content), LAMBDA f : NonWhitespaceCount(f) >= 10)

\* C21 amended: the candidate sentences are, in source order, the fragments
\* that measure more than 10 characters from their first to their last
\* non-whitespace character; every other fragment is discarded.
C21_CandidateIffTrimmedOverTen ==
    SummaryDone =>
        splitSentences(input.content)
          = SelectSeq(Fragments(input.content), LAMBDA f : InnerLength(f) > 10)

\* a finished call whose content holds a fragment of exactly ten characters,
\* which is discarded, next to fragments that are kept
C21_Witness ==
    /\ SummaryDone
    /\ \E i \in 1..Len(Fragments(input.content)) :
          LET f == Fragments(input.content)[i]
          IN /\ NonWhitespaceCount(f) = 10
             /\ InnerLength(f) = 10
             /\ IndexOf(splitSentences(input.content), f) = -1
    /\ Len(splitSentences(input.content)) >= 2
    /\ Len(output.keyPoints) >= 2

(***************************************************************************)
(* C22: the position part of a candidate's score                           *)
(***************************************************************************)

\* the score of the candidate at place k (counted from 0) when its position
\* bonuses are judged by that place
scoreAtOwnPlace(sentences, k) ==
    LET sentence == sentences[k + 1]
        words    == WordCount(sentence)
    IN indicatorScore(ToLowerCase(sentence), 1)
         + (IF k = 0 THEN 3 ELSE 0)
         + (IF k = Len(sentences) - 1 THEN 2 ELSE 0)
         + (IF k < 3 THEN 1 ELSE 0)
         + (IF words >= 10 /\ words <= 30 THEN 1 ELSE 0)

\* C22: every candidate is scored with +3 when it is the first candidate, +2
\* when it is the last and +1 when it is among the first three, each judged
\* by the candidate's own place in the sequence, also when the same sentence
\* text occurs at several places.
C22_PositionByOwnPlace ==
    SummaryDone =>
        LET sentences == splitSentences(input.content)
        IN \A k \in 0..(Len(sentences) - 1) :
              scoreOf(sentences[k + 1], sentences) = scoreAtOwnPlace(sentences, k)

(***************************************************************************)
(* C23: which candidates are selected as key sentences                     *)
(***************************************************************************)

\* the score the extraction gives each candidate, for every explored content
CandidateScoresOf ==
    [c \in Contents |->
        LET sentences == splitSentences(c)
        IN [k \in 1..Len(sentences) |-> scoreOf(sentences[k], sentences)]]

\* the places of the candidates with fewer than five candidates ahead, a
\* candidate being ahead with a higher score, or the same score at an
\* earlier place
TopPlacesOf ==
    [c \in Contents |->
        LET scores == CandidateScoresOf[c]
        IN {k \in DOMAIN scores :
              Cardinality({j \in DOMAIN scores :
                              \/ scores[j] > scores[k]
                              \/ scores[j] = scores[k] /\ j < k}) < KeySentenceCount}]

CandidateScores == CandidateScoresOf[input.content]

TopPlaces == TopPlacesOf[input.content]

\* how often a text occurs in a sequence
Occurrences(seq, x) == Cardinality({i \in 1..Len(seq) : seq[i] = x})

\* C23: the selected sentences are the at most 5 candidates with the highest
\* scores, of equally scored candidates the earlier one first (the sort is
\* stable), so keyPoints has min(5, number of candidates) elements and never
\* more than 5.
C23_TopFiveStable ==
    SummaryDone =>
        LET points == CandidatePoints
            top    == TopPlaces
        IN /\ Len(output.keyPoints) = Min(KeySentenceCount, Len(points))
           /\ Len(output.keyPoints) <= 5
           /\ \A k \in DOMAIN points :
                 Occurrences(output.keyPoints, points[k])
                   = Cardinality({j \in top : points[j] = points[k]})

\* a finished call with more than five candidates, where two candidates of
\* different text tie for the last selected places and the later one is
\* left out
C23_Witness ==
    /\ SummaryDone
    /\ Len(output.keyPoints) = 5
    /\ LET points == CandidatePoints
           scores == CandidateScores
           top    == TopPlaces
       IN /\ Len(points) > KeySentenceCount
          /\ \E j, k \in DOMAIN scores :
                /\ j < k
                /\ scores[j] = scores[k]
                /\ points[j] # points[k]
                /\ j \in top
                /\ k \notin top
                /\ Occurrences(output.keyPoints, points[k]) < Occurrences(points, points[k])

(***************************************************************************)
(* C24: truncation of the line formats                                     *)
(***************************************************************************)

\* the text the format renders from the returned key points, before any
\* truncation
Rendered ==
    CASE input.format = "tldr" -> generateTLDR(output.keyPoints, input.targetAudience)
      [] input.format = "bullets" -> generateBullets(output.keyPoints, input.targetAudience)
      [] input.format = "paragraph" -> generateParagraph(output.keyPoints, input.targetAudience)
      [] input.format = "keypoints" -> generateKeyPoints(output.keyPoints, input.targetAudience)
      [] input.format = "executive" ->
           generateExecutive(output.keyPoints, input.targetAudience, output.originalWordCount)

LineFormat == input.format \in {"bullets", "keypoints"}

\* the first k lines of a text, joined again
FirstLines(lines, k) == Join(SubSeq(lines, 1, k), "\n")

\* C24: for bullets and keypoints a text longer than maxLength loses its
\* trailing lines one at a time until it is within maxLength or one line is
\* left: the summary is the first k whole lines of the rendered text, for the
\* largest k that fits, or k = 1 when not even the first line fits; the loop
\* terminates.
C24_WholeLinePrefix ==
    SummaryDone /\ LineFormat =>
        LET rendered == Rendered
            lines    == SplitEach(rendered, {"\n"})
            n        == Len(lines)
        IN IF Len(rendered) <= input.maxLength
           THEN output.summary = rendered
           ELSE \E k \in 1..n :
                   /\ output.summary = FirstLines(lines, k)
                   /\ Len(output.summary) <= input.maxLength \/ k = 1
                   /\ k < n => Len(FirstLines(lines, k + 1)) > input.maxLength

\* a finished call in a line format where some but not all trailing lines
\* were removed and the rest fits
C24_Witness ==
    /\ SummaryDone
    /\ LineFormat
    /\ LET lines == SplitEach(Rendered, {"\n"})
       IN \E k \in 2..(Len(lines) - 2) : output.summary = FirstLines(lines, k)
    /\ Len(output.summary) <= input.maxLength

(***************************************************************************)
(* C25: truncation of the running-text formats                             *)
(***************************************************************************)

TextFormat == input.format \in {"tldr", "paragraph", "executive"}

\* the places (counted from 1) of the periods in the first maxLength
\* characters that lie past half of maxLength (index counted from 0)
LatePeriods(text, maxLength) ==
    {i \in 1..Min(maxLength, Len(text)) : CharAt(text, i) = "." /\ 2 * (i - 1) > maxLength}

\* the text cut behind its last late period
CutAtPeriod(text, maxLength) ==
    LET late == LatePeriods(text, maxLength)
    IN SubSeq(text, 1, CHOOSE i \in late : \A j \in late : j <= i)

\* C25 as stated: for tldr, paragraph and executive a text longer than
\* maxLength is cut right behind the last period of its first maxLength
\* characters when that period lies past 50% of maxLength; otherwise the
\* summary is the first maxLength characters followed by "...".
C25_Original ==
    SummaryDone /\ TextFormat /\ Len(Rendered) > input.maxLength =>
        LET rendered == Rendered
        IN IF LatePeriods(rendered, input.maxLength) # {}
           THEN output.summary = CutAtPeriod(rendered, input.maxLength)
           ELSE output.summary = SubSeq(rendered, 1, input.maxLength) \o "..."

\* C25 amended: as above, but in the second case the first maxLength
\* characters are trimmed of surrounding whitespace before "..." is appended.
C25_PeriodCutOrTrimmedEllipsis ==
    SummaryDone /\ TextFormat /\ Len(Rendered) > input.maxLength =>
        LET rendered == Rendered
        IN IF LatePeriods(rendered, input.maxLength) # {}
           THEN output.summary = CutAtPeriod(rendered, input.maxLength)
           ELSE output.summary = Trim(SubSeq(rendered, 1, input.maxLength)) \o "..."

\* a finished call whose text was cut hard where the cut ends in whitespace,
\* so the ellipsis follows the last word directly
C25_Witness ==
    /\ SummaryDone
    /\ TextFormat
    /\ Len(Rendered) > input.maxLength
    /\ LatePeriods(Rendered, input.maxLength) = {}
    /\ CharAt(Rendered, input.maxLength) \in WhiteSpace
    /\ EndsWith(output.summary, "...")
    /\ Len(output.summary) < input.maxLength + 3

\* a finished call whose text was cut behind a period past the middle
C25_PeriodCutReached ==
    /\ SummaryDone
    /\ TextFormat
    /\ Len(Rendered) > input.maxLength
    /\ LatePeriods(Rendered, input.maxLength) # {}
    /\ EndsWith(output.summary, ".")

(***************************************************************************)
(* C26: what a content unit of a thread starts with                        *)
(***************************************************************************)

\* the number of content units of the returned thread
ContentUnits == Len(output.thread) - HookUnits - CTAUnits

\* the text of the k-th content unit, k counted from 1
ContentUnit(k) == output.thread[HookUnits + k].content

\* the content unit starts with the marker k/N for some N
StartsWithCounter(text, k) ==
    \E n \in 1..ThreadMaxLength :
        StartsWith(text, NumToString(k) \o "/" \o NumToString(n) \o " ")

\* the content unit starts with a connective of the tone's transition list
StartsWithConnective(text) ==
    \E t \in 1..Len(threadStyles[input.tone].transitions) :
        StartsWith(text, threadStyles[input.tone].transitions[t] \o " ")

\* C26 as stated: the k-th content unit starts with "k/N" in the listicle
\* tone, with "Step k:" in the howto tone, and with a connective of the
\* tone's transition list in every other tone.
C26_Original ==
    ThreadDone =>
        \A k \in 1..ContentUnits :
            CASE input.tone = "listicle" -> StartsWithCounter(ContentUnit(k), k)
              [] input.tone = "howto" ->
                   StartsWith(ContentUnit(k), "Step " \o NumToString(k) \o ": ")
              [] OTHER -> StartsWithConnective(ContentUnit(k))

\* the label of the k-th step of a howto thread
HowtoLabel(k) ==
    CASE k = 5 -> "Pro tip:"
      [] k = 6 -> "Bonus:"
      [] OTHER -> "Step " \o NumToString(k) \o ":"

\* C26 amended: as above, but in the howto tone the fifth content unit starts
\* with "Pro tip:" and the sixth with "Bonus:"; every other one starts with
\* "Step k:".
C26_MarkerByTone ==
    ThreadDone =>
        \A k \in 1..ContentUnits :
            CASE input.tone = "listicle" -> StartsWithCounter(ContentUnit(k), k)
              [] input.tone = "howto" -> StartsWith(ContentUnit(k), HowtoLabel(k) \o " ")
              [] OTHER -> StartsWithConnective(ContentUnit(k))

\* a howto thread of seven steps: the fifth and sixth carry their own
\* labels and the seventh is numbered again
C26_Witness ==
    /\ ThreadDone
    /\ input.tone = "howto"
    /\ ContentUnits = 7
    /\ StartsWith(ContentUnit(4), "Step 4: ")
    /\ StartsWith(ContentUnit(5), "Pro tip: ")
    /\ StartsWith(ContentUnit(6), "Bonus: ")
    /\ StartsWith(ContentUnit(7), "Step 7: ")

(***************************************************************************)
(* C27: originalWordCount and compressionRatio                             *)
(***************************************************************************)

\* the value of a string of decimal digits, or -1 when it is not one
RECURSIVE DigitsValue(_)
DigitsValue(s) ==
    IF Len(s) = 0 THEN -1
    ELSE LET last == CharAt(s, Len(s))
             d    == IF \E i \in 1..10 : Digits[i] = last
                     THEN (CHOOSE i \in 1..10 : Digits[i] = last) - 1 ELSE -1
             head == IF Len(s) = 1 THEN 0 ELSE DigitsValue(SubSeq(s, 1, Len(s) - 1))
         IN IF d < 0 \/ head < 0 THEN -1 ELSE 10 * head + d

RatioSuffix == "% reduction"

\* the number in front of "% reduction"
RatioNumber == SubSeq(output.compressionRatio, 1, Len(output.compressionRatio) - Len(RatioSuffix))

\* the number without its sign
RatioMagnitude == IF StartsWith(RatioNumber, "-") THEN SubSeq(RatioNumber, 2, Len(RatioNumber)) ELSE RatioNumber

\* the tenths the number stands for: digits, a point, one digit; -1 otherwise
RatioTenths ==
    LET m == RatioMagnitude
    IN IF Len(m) >= 3 /\ CharAt(m, Len(m) - 1) = "."
       THEN LET whole == DigitsValue(SubSeq(m, 1, Len(m) - 2))
                tenth == DigitsValue(CharAt(m, Len(m)))
            IN IF whole < 0 \/ tenth < 0 THEN -1 ELSE 10 * whole + tenth
       ELSE -1

\* C27: originalWordCount is at least 1 for every valid input, so the
\* division in compressionRatio is by a positive number, and compressionRatio
\* is a finite decimal number followed by "% reduction": the percentage
\* (1 - wordCount / originalWordCount) * 100 to the nearest tenth.
C27_RatioIsFiniteNumber ==
    SummaryDone =>
        /\ output.originalWordCount >= 1
        /\ output.wordCount >= 1
        /\ EndsWith(output.compressionRatio, RatioSuffix)
        /\ RatioTenths >= 0
        /\ LET owc   == output.originalWordCount
               exact == 1000 * (owc - output.wordCount)
               sign  == IF exact < 0 THEN -1 ELSE 1
           IN /\ StartsWith(RatioNumber, "-") <=> exact < 0
              /\ 2 * (sign * exact - RatioTenths * owc) <= owc
              /\ 2 * (RatioTenths * owc - sign * exact) <= owc

\* a finished call on a content without one word: the split still yields two
\* pieces, and the ratio is a number
C27_Witness ==
    /\ SummaryDone
    /\ input.content = BlankContent
    /\ output.originalWordCount = 2
    /\ output.wordCount = 1
    /\ output.compressionRatio = "50.0% reduction"

(***************************************************************************)
(* C28: the first key point survives the truncation of the line formats    *)
(***************************************************************************)

\* C28: for bullets and keypoints, when at least one key point was
\* extracted, the summary after truncation still contains the first key
\* point: truncation never leaves only a header line.
C28_FirstKeyPointKept ==
    SummaryDone /\ LineFormat /\ Len(output.keyPoints) >= 1 =>
        Includes(output.summary, output.keyPoints[1])

(***************************************************************************)
(* C29: the decisions of the Post Composer under two calls                 *)
(***************************************************************************)

\* the returned text ends with the block of the returned hashtags
BlockAppended(result) ==
    /\ result.hashtags # <<>>
    /\ EndsWith(result.tweet, HashtagBlock(result.hashtags))

\* the returned text was cut and closed with an ellipsis
TextTruncated(result) == EndsWith(result.tweet, "...")

\* C29: whether the hashtag block is appended and whether the text is
\* truncated are determined by the input alone: two calls of the Post
\* Composer with the same input make both decisions alike, whatever opening
\* and emoji each call draws.
C29_DecisionsByInputAlone ==
    CalledTwice /\ component = "tweet" =>
        /\ BlockAppended(output[1]) <=> BlockAppended(output[2])
        /\ TextTruncated(output[1]) <=> TextTruncated(output[2])

(***************************************************************************)
(* C30: the denominator of the listicle markers                            *)
(***************************************************************************)

\* C30: in the listicle tone every content unit carries the marker i/N with
\* N the number of content units the thread actually has, for every valid
\* input.
C30_DenominatorIsUnitCount ==
    ThreadDone /\ input.tone = "listicle" =>
        \A k \in 1..ContentUnits :
            StartsWith(ContentUnit(k),
                       NumToString(k) \o "/" \o NumToString(ContentUnits) \o " ")
====
